---- MODULE Spec2Model ----
(***************************************************************************)
(* xtensor-blas: the adapter layer between array views and the BLAS/LAPACK *)
(* backend (xblas.hpp, xlapack.hpp).  One behaviour of the model is one    *)
(* call of one kernel: the inputs are chosen in Init, the steps of the     *)
(* call are the actions, and every backend call is appended to `calls'     *)
(* with the arguments the wrapper handed over.  The backend itself is      *)
(* external: its status code and the sizes it writes are chosen freely.    *)
(***************************************************************************)
EXTENDS Integers, Sequences, FiniteSets, TLC

\* ------------------------------------------------------------------ bounds
\* extents of every dimension range over 0..MaxExtent
MaxExtent == 2
\* the backend reports scratch sizes in 1..MaxWork
MaxWork == 2
\* the backend returns status codes in -MaxInfo..MaxInfo
MaxInfo == 1

Extents == 0..MaxExtent
Sizes == 1..MaxWork
InfoVals == (0 - MaxInfo)..MaxInfo
\* what an uninitialised scratch slot may hold
Garbage == 0..MaxWork

Min(a, b) == IF a < b THEN a ELSE b
Max(a, b) == IF a > b THEN a ELSE b

\* ------------------------------------------------------------------ kernels
NoScratchKernels == {"gesv", "getrf", "potr"}
RealScratchKernels == {"orgqr", "getri", "gesdd", "geev", "syevd", "gelsd"}
ComplexScratchKernels == {"ungqr", "gesdd_c", "geev_c", "heevd", "gelsd_c"}
\* geqrf is one template for both element types
ScratchKernels == RealScratchKernels \cup ComplexScratchKernels \cup {"geqrf"}
LapackKernels == NoScratchKernels \cup ScratchKernels
BlasKernels == {"gemm", "ger", "dot", "dotu"}
Kernels == LapackKernels \cup BlasKernels

VARIABLES
    kernel,     \* the entry point being called
    assertsOn,  \* whether the build compiles XTENSOR_ASSERT in
    oob,        \* the value an out-of-range shape()/strides() read yields
    A,          \* first operand: [dim, layout, shape]
    B,          \* second operand (b of gesv/gelsd, B of gemm, y of ger)
    args,       \* scalar parameters: jobz, jobvl, jobvr, uplo, n, tau, transpose flags
    pc,         \* position in the call
    work,       \* scratch buffer: [size, re, im]; re/im are work[0]
    rwork,      \* real auxiliary scratch: [size, v0]
    iwork,      \* integer auxiliary scratch: [size, v0]
    n,          \* orgqr/ungqr: the resolved column count
    svd,        \* gesdd locals: s, u, vt, whether u/vt were resized, the leading strides
    calls,      \* the backend calls made so far, in order
    info,       \* the local `info'
    ret,        \* the returned status, "none" before the return
    error       \* the message of the exception thrown, "" if none

vars == <<kernel, assertsOn, oob, A, B, args, pc, work, rwork, iwork, n, svd,
          calls, info, ret, error>>

inputs == <<kernel, assertsOn, oob, A, B, args>>

\* ------------------------------------------------------------------ array views
Layouts == {"row_major", "column_major"}

Views == UNION {{[dim |-> d, layout |-> l, shape |-> s] :
                    l \in Layouts, s \in [1..d -> Extents]} : d \in 1..2}

\* strides of a container: a dimension of extent 1 has stride 0
compute_strides(X) ==
    LET sh == X.shape
        adapt(i, v) == IF sh[i] = 1 THEN 0 ELSE v
    IN  IF X.dim = 1 THEN <<adapt(1, 1)>>
        ELSE IF X.layout = "column_major"
             THEN <<adapt(1, 1), adapt(2, sh[1])>>
             ELSE <<adapt(1, sh[2]), adapt(2, 1)>>

\* X.shape()[i], i counted from 0; reading past the rank is undefined
shape_at(X, i) == IF i < X.dim THEN X.shape[i + 1] ELSE oob
shape_front(X) == X.shape[1]
shape_back(X) == X.shape[X.dim]
\* X.strides()[i], X.strides().front(), X.strides().back()
strides_at(X, i) == IF i < X.dim THEN compute_strides(X)[i + 1] ELSE oob
strides_front(X) == compute_strides(X)[1]
strides_back(X) == compute_strides(X)[X.dim]

\* an array that was default-constructed and never resized
EmptyMatrix == [dim |-> 2, layout |-> "column_major", shape |-> <<0, 0>>]
Matrix(r, c) == [dim |-> 2, layout |-> "column_major", shape |-> <<r, c>>]

\* ------------------------------------------------------------------ backend calls
NoCall == [fn |-> "", jobz |-> "-", jobvl |-> "-", jobvr |-> "-", uplo |-> "-",
           order |-> "-", transA |-> FALSE, transB |-> FALSE,
           m |-> 0, n |-> 0, k |-> 0, nrhs |-> 0,
           lda |-> 0, ldb |-> 0, ldc |-> 0, ldu |-> 0, ldvt |-> 0, ldvl |-> 0, ldvr |-> 0,
           incx |-> 0, incy |-> 0,
           lwork |-> 0, worklen |-> 0, lrwork |-> 0, rworklen |-> 0,
           liwork |-> 0, iworklen |-> 0, info |-> 0]

\* ------------------------------------------------------------------ assertions
\* XTENSOR_ASSERT(A.dimension() == 2); XTENSOR_ASSERT(A.layout() == column_major)
assert_matrix(X) == X.dim = 2 /\ X.layout = "column_major"

gesv_assert == /\ assert_matrix(A)
               /\ B.dim <= 2
               /\ B.layout = "column_major"

\* the entry points that open with the two assertions on A (orgqr, ungqr and
\* both gelsd have none)
AssertingKernels == {"getrf", "geqrf", "gesdd", "gesdd_c", "potr", "getri",
                     "geev", "geev_c", "syevd", "heevd"}

\* ------------------------------------------------------------------ helpers of xlapack.hpp
select_stride(stride) == IF stride = 0 THEN 1 ELSE stride

b_dim(b) == IF b.dim > 1 THEN shape_back(b) ELSE 1
b_stride(b) == IF b_dim(b) = 1 THEN shape_front(b) ELSE strides_back(b)

\* init_u_vt with the leading strides read straight off u and vt, whatever jobz
init_u_vt_raw_strides(jobz, m_, n_) ==
    LET u_first == jobz = "A" \/ (jobz = "O" /\ m_ < n_)
        vt_first == jobz = "A" \/ (jobz = "O" /\ m_ >= n_)
        u1 == IF u_first THEN Matrix(m_, m_) ELSE EmptyMatrix
        vt1 == IF vt_first THEN Matrix(n_, n_) ELSE EmptyMatrix
        u2 == IF jobz = "S" THEN Matrix(m_, Min(m_, n_)) ELSE u1
        vt2 == IF jobz = "S" THEN Matrix(Min(m_, n_), n_) ELSE vt1
    IN  [u |-> u2, vt |-> vt2,
         u_resized |-> (u_first \/ jobz = "S"), vt_resized |-> (vt_first \/ jobz = "S"),
         u_stride |-> strides_back(u2), vt_stride |-> strides_back(vt2)]

\* init_u_vt with jobz = 'O' choosing u for m <= n instead of m < n
init_u_vt_O_boundary(jobz, m_, n_) ==
    LET u_first == jobz = "A" \/ (jobz = "O" /\ m_ <= n_)
        vt_first == jobz = "A" \/ (jobz = "O" /\ m_ > n_)
        u1 == IF u_first THEN Matrix(m_, m_) ELSE EmptyMatrix
        vt1 == IF vt_first THEN Matrix(n_, n_) ELSE EmptyMatrix
        u2 == IF jobz = "S" THEN Matrix(m_, Min(m_, n_)) ELSE u1
        vt2 == IF jobz = "S" THEN Matrix(Min(m_, n_), n_) ELSE vt1
        pair == IF jobz = "N" THEN <<1, 1>>
                ELSE IF jobz = "O"
                     THEN IF m_ > n_ THEN <<1, select_stride(strides_back(vt2))>>
                                     ELSE <<select_stride(strides_back(u2)), 1>>
                     ELSE <<select_stride(strides_back(u2)), select_stride(strides_back(vt2))>>
    IN  [u |-> u2, vt |-> vt2,
         u_resized |-> (u_first \/ jobz = "S"), vt_resized |-> (vt_first \/ jobz = "S"),
         u_stride |-> pair[1], vt_stride |-> pair[2]]

\* init_u_vt with jobz = 'S' sized like jobz = 'A'
init_u_vt_S_full(jobz, m_, n_) ==
    LET u_first == jobz \in {"A", "S"} \/ (jobz = "O" /\ m_ < n_)
        vt_first == jobz \in {"A", "S"} \/ (jobz = "O" /\ m_ >= n_)
        u2 == IF u_first THEN Matrix(m_, m_) ELSE EmptyMatrix
        vt2 == IF vt_first THEN Matrix(n_, n_) ELSE EmptyMatrix
        pair == IF jobz = "N" THEN <<1, 1>>
                ELSE IF jobz = "O"
                     THEN IF m_ >= n_ THEN <<1, select_stride(strides_back(vt2))>>
                                      ELSE <<select_stride(strides_back(u2)), 1>>
                     ELSE <<select_stride(strides_back(u2)), select_stride(strides_back(vt2))>>
    IN  [u |-> u2, vt |-> vt2, u_resized |-> u_first, vt_resized |-> vt_first,
         u_stride |-> pair[1], vt_stride |-> pair[2]]

\* what init_u_vt leaves behind: u and vt (with whether each was resized) and
\* the pair of leading strides it returns
init_u_vt(jobz, m_, n_) ==
    LET u_first == jobz = "A" \/ (jobz = "O" /\ m_ < n_)
        vt_first == jobz = "A" \/ (jobz = "O" /\ m_ >= n_)
        u1 == IF u_first THEN Matrix(m_, m_) ELSE EmptyMatrix
        vt1 == IF vt_first THEN Matrix(n_, n_) ELSE EmptyMatrix
        u2 == IF jobz = "S" THEN Matrix(m_, Min(m_, n_)) ELSE u1
        vt2 == IF jobz = "S" THEN Matrix(Min(m_, n_), n_) ELSE vt1
        pair == IF jobz = "N" THEN <<1, 1>>
                ELSE IF jobz = "O"
                     THEN IF m_ >= n_ THEN <<1, select_stride(strides_back(vt2))>>
                                      ELSE <<select_stride(strides_back(u2)), 1>>
                     ELSE <<select_stride(strides_back(u2)), select_stride(strides_back(vt2))>>
    IN  [u |-> u2, vt |-> vt2,
         u_resized |-> (u_first \/ jobz = "S"), vt_resized |-> (vt_first \/ jobz = "S"),
         u_stride |-> pair[1], vt_stride |-> pair[2]]

\* s sized min(m, n), without the floor of 1
gesdd_s_no_floor(m_, n_) == Min(m_, n_)

\* length of the singular-value vector s
gesdd_s(m_, n_) == Max(1, Min(m_, n_))

\* length of iwork in both gesdd
gesdd_iwork(m_, n_) == 8 * Min(m_, n_)

\* rwork of the complex gesdd with the other operand of the max taken for m = n
gesdd_rwork_second_operand(jobz, m_, n_) ==
    LET mx == Max(m_, n_)
        mn == Min(m_, n_)
    IN  IF jobz = "N" THEN 5 * mn
        ELSE IF mx > mn THEN 5 * mn * mn + 5 * mn
        ELSE 2 * mx * mn + 2 * mn * mn + mn

\* length of rwork in the complex gesdd
gesdd_rwork(jobz, m_, n_) ==
    LET mx == Max(m_, n_)
        mn == Min(m_, n_)
    IN  IF jobz = "N" THEN 5 * mn
        ELSE IF mx > mn THEN 5 * mn * mn + 5 * mn
        ELSE Max(5 * mn * mn + 5 * mn, 2 * mx * mn + 2 * mn * mn + mn)

\* the locals of gesdd before the probe
gesdd_locals ==
    LET m_ == shape_at(A, 0)
        n_ == shape_at(A, 1)
        r == init_u_vt(args.jobz, m_, n_)
    IN  [s |-> gesdd_s(m_, n_), u |-> r.u, vt |-> r.vt,
         u_resized |-> r.u_resized, vt_resized |-> r.vt_resized,
         u_stride |-> r.u_stride, vt_stride |-> r.vt_stride,
         A_stride |-> select_stride(strides_back(A))]

NoSvd == [s |-> 0, u |-> EmptyMatrix, vt |-> EmptyMatrix,
          u_resized |-> FALSE, vt_resized |-> FALSE,
          u_stride |-> 0, vt_stride |-> 0, A_stride |-> 0]

\* orgqr/ungqr: n defaults to -1, meaning the column count of A
resolve_n(n_) == IF n_ = -1 THEN shape_at(A, 1) ELSE n_

\* the imaginary part of work[0] taken for the size
probed_size_imag(w) == w.im

\* (std::size_t) work[0], (std::size_t) std::real(work[0])
probed_size(w) == w.re

\* the condition under which the status of the probe throws
probe_throws(k, inf) == IF k = "getri" THEN inf > 0 ELSE inf # 0

\* ------------------------------------------------------------------ arguments of each backend call
\* gesv lda read off the first stride of A
gesv_call_lda_front ==
    [NoCall EXCEPT !.fn = "gesv", !.n = shape_at(A, 0), !.nrhs = b_dim(B),
                   !.lda = strides_front(A), !.ldb = b_stride(B)]

gesv_call ==
    [NoCall EXCEPT !.fn = "gesv", !.n = shape_at(A, 0), !.nrhs = b_dim(B),
                   !.lda = strides_at(A, 1), !.ldb = b_stride(B)]

getrf_call ==
    [NoCall EXCEPT !.fn = "getrf", !.m = shape_at(A, 0), !.n = shape_at(A, 1),
                   !.lda = strides_back(A)]

potr_call ==
    [NoCall EXCEPT !.fn = "potrf", !.uplo = args.uplo, !.n = shape_at(A, 0),
                   !.lda = strides_back(A)]

orgqr_probe ==
    [NoCall EXCEPT !.fn = "orgqr", !.m = shape_at(A, 0), !.n = n, !.k = args.tau,
                   !.lda = strides_back(A), !.lwork = -1, !.worklen = work.size]

\* the execute call of orgqr given the caller's n, default -1 included
orgqr_exec_unresolved_n ==
    [NoCall EXCEPT !.fn = "orgqr", !.m = shape_at(A, 0), !.n = args.n, !.k = args.tau,
                   !.lda = strides_back(A), !.lwork = work.size, !.worklen = work.size]

orgqr_exec ==
    [NoCall EXCEPT !.fn = "orgqr", !.m = shape_at(A, 0), !.n = n, !.k = args.tau,
                   !.lda = strides_back(A), !.lwork = work.size, !.worklen = work.size]

ungqr_probe ==
    [NoCall EXCEPT !.fn = "ungqr", !.m = shape_at(A, 0), !.n = n, !.k = args.tau,
                   !.lda = strides_back(A), !.lwork = -1, !.worklen = work.size]

ungqr_exec ==
    [NoCall EXCEPT !.fn = "ungqr", !.m = shape_at(A, 0), !.n = n, !.k = args.tau,
                   !.lda = strides_back(A), !.lwork = work.size, !.worklen = work.size]

geqrf_probe ==
    [NoCall EXCEPT !.fn = "geqrf", !.m = shape_at(A, 0), !.n = shape_at(A, 1),
                   !.lda = strides_back(A), !.lwork = -1, !.worklen = work.size]

geqrf_exec ==
    [NoCall EXCEPT !.fn = "geqrf", !.m = shape_at(A, 0), !.n = shape_at(A, 1),
                   !.lda = strides_back(A), !.lwork = work.size, !.worklen = work.size]

gesdd_probe ==
    [NoCall EXCEPT !.fn = "gesdd", !.jobz = args.jobz,
                   !.m = shape_at(A, 0), !.n = shape_at(A, 1), !.lda = svd.A_stride,
                   !.ldu = svd.u_stride, !.ldvt = svd.vt_stride,
                   !.lwork = -1, !.worklen = work.size, !.iworklen = iwork.size]

gesdd_exec ==
    [NoCall EXCEPT !.fn = "gesdd", !.jobz = args.jobz,
                   !.m = shape_at(A, 0), !.n = shape_at(A, 1), !.lda = svd.A_stride,
                   !.ldu = svd.u_stride, !.ldvt = svd.vt_stride,
                   !.lwork = work.size, !.worklen = work.size, !.iworklen = iwork.size]

gesdd_c_probe ==
    [NoCall EXCEPT !.fn = "gesdd_c", !.jobz = args.jobz,
                   !.m = shape_at(A, 0), !.n = shape_at(A, 1), !.lda = svd.A_stride,
                   !.ldu = svd.u_stride, !.ldvt = svd.vt_stride,
                   !.lwork = -1, !.worklen = work.size,
                   !.rworklen = rwork.size, !.iworklen = iwork.size]

gesdd_c_exec ==
    [NoCall EXCEPT !.fn = "gesdd_c", !.jobz = args.jobz,
                   !.m = shape_at(A, 0), !.n = shape_at(A, 1), !.lda = svd.A_stride,
                   !.ldu = svd.u_stride, !.ldvt = svd.vt_stride,
                   !.lwork = work.size, !.worklen = work.size,
                   !.rworklen = rwork.size, !.iworklen = iwork.size]

getri_probe ==
    [NoCall EXCEPT !.fn = "getri", !.n = shape_at(A, 0), !.lda = strides_back(A),
                   !.lwork = -1, !.worklen = work.size]

getri_exec ==
    [NoCall EXCEPT !.fn = "getri", !.n = shape_at(A, 0), !.lda = strides_back(A),
                   !.lwork = work.size, !.worklen = work.size]

geev_probe ==
    [NoCall EXCEPT !.fn = "geev", !.jobvl = args.jobvl, !.jobvr = args.jobvr,
                   !.n = shape_at(A, 0), !.lda = strides_back(A),
                   !.ldvl = strides_back(args.VL), !.ldvr = strides_back(args.VR),
                   !.lwork = -1, !.worklen = work.size]

geev_exec ==
    [NoCall EXCEPT !.fn = "geev", !.jobvl = args.jobvl, !.jobvr = args.jobvr,
                   !.n = shape_at(A, 0), !.lda = strides_back(A),
                   !.ldvl = strides_back(args.VL), !.ldvr = strides_back(args.VR),
                   !.lwork = work.size, !.worklen = work.size]

geev_c_probe ==
    [NoCall EXCEPT !.fn = "geev_c", !.jobvl = args.jobvl, !.jobvr = args.jobvr,
                   !.n = shape_at(A, 0), !.lda = strides_back(A),
                   !.ldvl = strides_back(args.VL), !.ldvr = strides_back(args.VR),
                   !.lwork = -1, !.worklen = work.size, !.rworklen = rwork.size]

geev_c_exec ==
    [NoCall EXCEPT !.fn = "geev_c", !.jobvl = args.jobvl, !.jobvr = args.jobvr,
                   !.n = shape_at(A, 0), !.lda = strides_back(A),
                   !.ldvl = strides_back(args.VL), !.ldvr = strides_back(args.VR),
                   !.lwork = work.size, !.worklen = work.size, !.rworklen = rwork.size]

syevd_probe ==
    [NoCall EXCEPT !.fn = "syevd", !.jobz = args.jobz, !.uplo = args.uplo,
                   !.n = shape_at(A, 0), !.lda = strides_back(A),
                   !.lwork = -1, !.worklen = work.size,
                   !.liwork = -1, !.iworklen = iwork.size]

syevd_exec ==
    [NoCall EXCEPT !.fn = "syevd", !.jobz = args.jobz, !.uplo = args.uplo,
                   !.n = shape_at(A, 0), !.lda = strides_back(A),
                   !.lwork = work.size, !.worklen = work.size,
                   !.liwork = iwork.size, !.iworklen = iwork.size]

heevd_probe ==
    [NoCall EXCEPT !.fn = "heevd", !.jobz = args.jobz, !.uplo = args.uplo,
                   !.n = shape_at(A, 0), !.lda = strides_back(A),
                   !.lwork = -1, !.worklen = work.size,
                   !.lrwork = -1, !.rworklen = rwork.size,
                   !.liwork = -1, !.iworklen = iwork.size]

heevd_exec ==
    [NoCall EXCEPT !.fn = "heevd", !.jobz = args.jobz, !.uplo = args.uplo,
                   !.n = shape_at(A, 0), !.lda = strides_back(A),
                   !.lwork = work.size, !.worklen = work.size,
                   !.lrwork = rwork.size, !.rworklen = rwork.size,
                   !.liwork = iwork.size, !.iworklen = iwork.size]

gelsd_probe ==
    [NoCall EXCEPT !.fn = "gelsd", !.m = shape_at(A, 0), !.n = shape_at(A, 1),
                   !.nrhs = b_dim(B), !.lda = strides_back(A), !.ldb = b_stride(B),
                   !.lwork = -1, !.worklen = work.size, !.iworklen = iwork.size]

gelsd_exec ==
    [NoCall EXCEPT !.fn = "gelsd", !.m = shape_at(A, 0), !.n = shape_at(A, 1),
                   !.nrhs = b_dim(B), !.lda = strides_back(A), !.ldb = b_stride(B),
                   !.lwork = work.size, !.worklen = work.size, !.iworklen = iwork.size]

gelsd_c_probe ==
    [NoCall EXCEPT !.fn = "gelsd_c", !.m = shape_at(A, 0), !.n = shape_at(A, 1),
                   !.nrhs = b_dim(B), !.lda = strides_back(A), !.ldb = b_stride(B),
                   !.lwork = -1, !.worklen = work.size,
                   !.rworklen = rwork.size, !.iworklen = iwork.size]

gelsd_c_exec ==
    [NoCall EXCEPT !.fn = "gelsd_c", !.m = shape_at(A, 0), !.n = shape_at(A, 1),
                   !.nrhs = b_dim(B), !.lda = strides_back(A), !.ldb = b_stride(B),
                   !.lwork = work.size, !.worklen = work.size,
                   !.rworklen = rwork.size, !.iworklen = iwork.size]

single_call ==
    CASE kernel = "gesv" -> gesv_call
      [] kernel = "getrf" -> getrf_call
      [] kernel = "potr" -> potr_call

probe_call ==
    CASE kernel = "orgqr" -> orgqr_probe
      [] kernel = "ungqr" -> ungqr_probe
      [] kernel = "geqrf" -> geqrf_probe
      [] kernel = "gesdd" -> gesdd_probe
      [] kernel = "gesdd_c" -> gesdd_c_probe
      [] kernel = "getri" -> getri_probe
      [] kernel = "geev" -> geev_probe
      [] kernel = "geev_c" -> geev_c_probe
      [] kernel = "syevd" -> syevd_probe
      [] kernel = "heevd" -> heevd_probe
      [] kernel = "gelsd" -> gelsd_probe
      [] kernel = "gelsd_c" -> gelsd_c_probe

exec_call ==
    CASE kernel = "orgqr" -> orgqr_exec
      [] kernel = "ungqr" -> ungqr_exec
      [] kernel = "geqrf" -> geqrf_exec
      [] kernel = "gesdd" -> gesdd_exec
      [] kernel = "gesdd_c" -> gesdd_c_exec
      [] kernel = "getri" -> getri_exec
      [] kernel = "geev" -> geev_exec
      [] kernel = "geev_c" -> geev_c_exec
      [] kernel = "syevd" -> syevd_exec
      [] kernel = "heevd" -> heevd_exec
      [] kernel = "gelsd" -> gelsd_exec
      [] kernel = "gelsd_c" -> gelsd_c_exec

\* ------------------------------------------------------------------ helpers of xblas_utils.hpp
\* view_eval<L>(e): e materialised in storage order L
view_eval(L, X) == [X EXCEPT !.layout = L]

get_blas_storage_order(X) == IF X.layout = "row_major" THEN "RowMajor" ELSE "ColMajor"

\* distance between adjacent columns (column-major) or rows (row-major), 0 replaced by 1
get_leading_stride(X) ==
    LET s == IF X.layout = "row_major" THEN strides_front(X) ELSE strides_back(X)
    IN  IF s = 0 THEN 1 ELSE s

\* ------------------------------------------------------------------ arguments of the BLAS calls
gemm_assert ==
    LET dA == view_eval(args.R.layout, A)
        dB == view_eval(args.R.layout, B)
    IN  /\ dA.layout = dB.layout
        /\ args.R.layout = dA.layout
        /\ dA.dim = 2
        /\ dB.dim = 2

\* gemm with the contraction length taken from op(A) instead of op(B)
gemm_call_K_from_A ==
    LET dA == view_eval(args.R.layout, A)
        dB == view_eval(args.R.layout, B)
    IN  [NoCall EXCEPT !.fn = "gemm", !.order = get_blas_storage_order(args.R),
                       !.transA = args.transpose_A, !.transB = args.transpose_B,
                       !.m = IF args.transpose_A THEN shape_at(dA, 1) ELSE shape_at(dA, 0),
                       !.n = IF args.transpose_B THEN shape_at(dB, 0) ELSE shape_at(dB, 1),
                       !.k = IF args.transpose_A THEN shape_at(dA, 1) ELSE shape_at(dA, 0),
                       !.lda = get_leading_stride(dA), !.ldb = get_leading_stride(dB),
                       !.ldc = get_leading_stride(args.R)]

gemm_call ==
    LET dA == view_eval(args.R.layout, A)
        dB == view_eval(args.R.layout, B)
    IN  [NoCall EXCEPT !.fn = "gemm", !.order = get_blas_storage_order(args.R),
                       !.transA = args.transpose_A, !.transB = args.transpose_B,
                       !.m = IF args.transpose_A THEN shape_at(dA, 1) ELSE shape_at(dA, 0),
                       !.n = IF args.transpose_B THEN shape_at(dB, 0) ELSE shape_at(dB, 1),
                       !.k = IF args.transpose_B THEN shape_at(dB, 1) ELSE shape_at(dB, 0),
                       !.lda = get_leading_stride(dA), !.ldb = get_leading_stride(dB),
                       !.ldc = get_leading_stride(args.R)]

ger_assert == A.dim = 1 /\ B.dim = 1

ger_call ==
    [NoCall EXCEPT !.fn = "ger", !.order = get_blas_storage_order(args.R),
                   !.m = shape_at(A, 0), !.n = shape_at(B, 0),
                   !.incx = strides_front(A), !.incy = strides_front(B),
                   !.lda = strides_front(args.R)]

\* XTENSOR_ASSERT(ad.dimension() == 1), the only assertion of dot and of dotu
dot_assert == A.dim = 1

dot_call ==
    [NoCall EXCEPT !.fn = "dot", !.n = shape_at(A, 0),
                   !.incx = strides_front(A), !.incy = strides_front(B)]

dotu_call ==
    [NoCall EXCEPT !.fn = "dotu", !.n = shape_at(A, 0),
                   !.incx = strides_front(A), !.incy = strides_front(B)]

\* ------------------------------------------------------------------ inputs
NoView == [dim |-> 1, layout |-> "column_major", shape |-> <<0>>]

NoArgs == [jobz |-> "-", jobvl |-> "-", jobvr |-> "-", uplo |-> "-", n |-> -1, tau |-> 0,
           VL |-> EmptyMatrix, VR |-> EmptyMatrix,
           transpose_A |-> FALSE, transpose_B |-> FALSE, R |-> EmptyMatrix]

JobzSvd == {"A", "S", "O", "N", "X"}
Uplos == {"L", "U"}
Jobs == {"N", "V"}

\* rows of op(A) and columns of op(B): the shape a caller gives the result of gemm
OpRows(X, tr) == IF tr THEN shape_back(X) ELSE shape_front(X)
OpCols(X, tr) == IF tr THEN shape_front(X) ELSE shape_back(X)

ArgsFor(k, a, b) ==
    CASE k \in {"orgqr", "ungqr"} ->
            {[NoArgs EXCEPT !.n = x, !.tau = t] : x \in {-1} \cup Extents, t \in Extents}
      [] k \in {"gesdd", "gesdd_c"} -> {[NoArgs EXCEPT !.jobz = j] : j \in JobzSvd}
      [] k = "potr" -> {[NoArgs EXCEPT !.uplo = u] : u \in Uplos}
      [] k \in {"geev", "geev_c"} ->
            {[NoArgs EXCEPT !.jobvl = l, !.jobvr = r,
                            !.VL = Matrix(shape_front(a), shape_front(a)),
                            !.VR = Matrix(shape_front(a), shape_front(a))] :
                l \in Jobs, r \in Jobs}
      [] k \in {"syevd", "heevd"} ->
            {[NoArgs EXCEPT !.jobz = j, !.uplo = u] : j \in Jobs, u \in Uplos}
      [] k = "gemm" ->
            {[NoArgs EXCEPT !.transpose_A = ta, !.transpose_B = tb,
                            !.R = [dim |-> 2, layout |-> l,
                                   shape |-> <<OpRows(a, ta), OpCols(b, tb)>>]] :
                ta \in BOOLEAN, tb \in BOOLEAN, l \in Layouts}
      [] k = "ger" ->
            {[NoArgs EXCEPT !.R = [dim |-> 2, layout |-> l,
                                   shape |-> <<shape_front(a), shape_front(b)>>]] :
                l \in Layouts}
      [] OTHER -> {NoArgs}

\* the right-hand side of gesv/gelsd has as many rows as A; B of gemm and y of
\* ger are any view
SecondOperands(k, a) ==
    CASE k \in {"gesv", "gelsd", "gelsd_c"} -> {b \in Views : shape_front(b) = shape_front(a)}
      [] k \in {"gemm", "ger", "dot", "dotu"} -> Views
      [] OTHER -> {NoView}

NoBuf == [size |-> 0, v0 |-> 0]
NoWork == [size |-> 0, re |-> 0, im |-> 0]

Init ==
    /\ kernel \in Kernels
    /\ assertsOn \in BOOLEAN
    /\ A \in Views
    /\ B \in SecondOperands(kernel, A)
    /\ oob \in IF A.dim = 1 \/ (kernel = "gemm" /\ B.dim = 1) THEN Extents ELSE {0}
    /\ args \in ArgsFor(kernel, A, B)
    /\ pc = "entry"
    /\ work = NoWork
    /\ rwork = NoBuf
    /\ iwork = NoBuf
    /\ n = 0
    /\ svd = NoSvd
    /\ calls = <<>>
    /\ info = 0
    /\ ret = "none"
    /\ error = ""

\* ------------------------------------------------------------------ the steps of a LAPACK call
entry_asserts ==
    CASE kernel = "gesv" -> gesv_assert
      [] kernel \in AssertingKernels -> assert_matrix(A)
      [] kernel = "gemm" -> gemm_assert
      [] kernel = "ger" -> ger_assert
      [] kernel \in {"dot", "dotu"} -> dot_assert
      [] OTHER -> TRUE

\* a failed XTENSOR_ASSERT throws before anything else happens
Reject ==
    /\ pc = "entry"
    /\ assertsOn /\ ~entry_asserts
    /\ pc' = "aborted"
    /\ error' = "assertion failed"
    /\ UNCHANGED <<inputs, work, rwork, iwork, n, svd, calls, info, ret>>

rwork_init(g) ==
    CASE kernel = "gesdd_c" ->
            [size |-> gesdd_rwork(args.jobz, shape_at(A, 0), shape_at(A, 1)), v0 |-> g]
      [] kernel = "geev_c" -> [size |-> 2 * shape_at(A, 0), v0 |-> g]
      [] kernel \in {"heevd", "gelsd_c"} -> [size |-> 1, v0 |-> g]
      [] OTHER -> NoBuf

iwork_init(g) ==
    CASE kernel \in {"gesdd", "gesdd_c"} ->
            [size |-> gesdd_iwork(shape_at(A, 0), shape_at(A, 1)), v0 |-> g]
      [] kernel \in {"syevd", "heevd", "gelsd", "gelsd_c"} -> [size |-> 1, v0 |-> g]
      [] OTHER -> NoBuf

\* what the scratch slots hold when they are declared: uvector does not
\* initialise its elements.  Only getri can go on to read work[0] without a
\* successful probe, so only there do the values matter.
Uninitialised == IF kernel = "getri" THEN Garbage ELSE {0}

\* the declarations before the first backend call
Enter ==
    /\ pc = "entry"
    /\ kernel \in LapackKernels
    /\ ~(assertsOn /\ ~entry_asserts)
    /\ \E g \in Uninitialised :
          /\ work' = IF kernel \in ScratchKernels
                     THEN [size |-> 1, re |-> g, im |-> g] ELSE NoWork
          /\ rwork' = rwork_init(g)
          /\ iwork' = iwork_init(g)
    /\ n' = IF kernel \in {"orgqr", "ungqr"} THEN resolve_n(args.n) ELSE 0
    /\ svd' = IF kernel \in {"gesdd", "gesdd_c"} THEN gesdd_locals ELSE NoSvd
    /\ pc' = IF kernel \in ScratchKernels THEN "Unqueried" ELSE "Ready"
    /\ UNCHANGED <<inputs, calls, info, ret, error>>

\* kernels whose probe also reports the sizes of rwork and iwork
ProbesRwork == {"heevd", "gelsd_c"}
ProbesIwork == {"syevd", "heevd", "gelsd", "gelsd_c"}

\* the workspace query: the backend returns a status and, on success, writes
\* the sizes into the first elements of the scratch buffers; on failure it may
\* or may not have written work[0] (the auxiliary sizes are then never read)
Probe ==
    /\ pc = "Unqueried"
    /\ \E inf \in InfoVals, wrote \in BOOLEAN, sz \in Sizes, rsz \in Sizes, isz \in Sizes :
          /\ inf = 0 => wrote
          /\ ~wrote => sz = 1
          /\ (inf # 0 \/ kernel \notin ProbesRwork) => rsz = 1
          /\ (inf # 0 \/ kernel \notin ProbesIwork) => isz = 1
          /\ calls' = Append(calls, [probe_call EXCEPT !.info = inf])
          /\ info' = inf
          /\ work' = IF wrote THEN [work EXCEPT !.re = sz, !.im = 0] ELSE work
          /\ rwork' = IF wrote /\ kernel \in ProbesRwork
                      THEN [rwork EXCEPT !.v0 = rsz] ELSE rwork
          /\ iwork' = IF wrote /\ kernel \in ProbesIwork
                      THEN [iwork EXCEPT !.v0 = isz] ELSE iwork
    /\ pc' = "SizeProbed"
    /\ UNCHANGED <<inputs, n, svd, ret, error>>

\* if (info != 0) throw std::runtime_error("Could not find workspace size ...")
ProbeFailed ==
    /\ pc = "SizeProbed"
    /\ probe_throws(kernel, info)
    /\ pc' = "aborted"
    /\ error' = "Could not find workspace size"
    /\ UNCHANGED <<inputs, work, rwork, iwork, n, svd, calls, info, ret>>

\* work.resize(work[0]), and rwork/iwork where they were probed
Resize ==
    /\ pc = "SizeProbed"
    /\ ~probe_throws(kernel, info)
    /\ work' = [work EXCEPT !.size = probed_size(work)]
    /\ rwork' = IF kernel \in ProbesRwork THEN [rwork EXCEPT !.size = rwork.v0] ELSE rwork
    /\ iwork' = IF kernel \in ProbesIwork THEN [iwork EXCEPT !.size = iwork.v0] ELSE iwork
    /\ pc' = "Allocated"
    /\ UNCHANGED <<inputs, n, svd, calls, info, ret, error>>

\* the second call, with the scratch allocated
Execute ==
    /\ pc = "Allocated"
    /\ \E inf \in InfoVals :
          /\ calls' = Append(calls, [exec_call EXCEPT !.info = inf])
          /\ info' = inf
    /\ pc' = "Executed"
    /\ UNCHANGED <<inputs, work, rwork, iwork, n, svd, ret, error>>

\* gesv, getrf, potr: one backend call
\* the backend call issued again after the first one has returned
CallOnce_repeated ==
    /\ pc = "Ready"
    /\ \E inf \in InfoVals :
          /\ calls' = Append(calls, [single_call EXCEPT !.info = inf])
          /\ info' = inf
    /\ pc' = IF calls = <<>> THEN "Ready" ELSE "Executed"
    /\ UNCHANGED <<inputs, work, rwork, iwork, n, svd, ret, error>>

CallOnce ==
    /\ pc = "Ready"
    /\ \E inf \in InfoVals :
          /\ calls' = Append(calls, [single_call EXCEPT !.info = inf])
          /\ info' = inf
    /\ pc' = "Executed"
    /\ UNCHANGED <<inputs, work, rwork, iwork, n, svd, ret, error>>

\* a negative status swallowed on return
returned_status_nonnegative(inf) == IF inf < 0 THEN 0 ELSE inf

\* the status handed back: `return info', or the first element of gesdd's tuple
returned_status(inf) == inf

Return ==
    /\ pc = "Executed"
    /\ ret' = returned_status(info)
    /\ pc' = "returned"
    /\ UNCHANGED <<inputs, work, rwork, iwork, n, svd, calls, info, error>>

\* ------------------------------------------------------------------ gesv on concrete data
\* exact rationals <<numerator, denominator>>, denominator > 0, in lowest terms
RECURSIVE GCD(_, _)
GCD(a, b) == IF b = 0 THEN a ELSE GCD(b, a % b)
Abs(x) == IF x < 0 THEN 0 - x ELSE x
Rat(p, q) ==
    LET g == GCD(Abs(p), Abs(q))
        sgn == IF q < 0 THEN -1 ELSE 1
    IN  <<(sgn * p) \div g, (sgn * q) \div g>>

\* the buffer behind a matrix view holding the rows `rows': element (i, j) lies
\* at i + j * rows when column-major and at i * cols + j when row-major
storage(X, rows) ==
    LET r == X.shape[1]
        c == X.shape[2]
    IN  [k \in 1..(r * c) |->
            IF X.layout = "column_major"
            THEN rows[((k - 1) % r) + 1][((k - 1) \div r) + 1]
            ELSE rows[((k - 1) \div c) + 1][((k - 1) % c) + 1]]

RECURSIVE Det(_)
\* determinant of a square matrix given as a sequence of rows
Det(M) ==
    LET k == Len(M)
        minor(j) == [i \in 1..(k - 1) |->
                        [l \in 1..(k - 1) |-> M[i + 1][IF l < j THEN l ELSE l + 1]]]
        term(j) == (IF j % 2 = 1 THEN 1 ELSE -1) * M[1][j] * Det(minor(j))
        sum[j \in 0..k] == IF j = 0 THEN 0 ELSE sum[j - 1] + term(j)
    IN  IF k = 0 THEN 1 ELSE sum[k]

RECURSIVE Ascending(_)
Ascending(S) ==
    IF S = {} THEN <<>>
    ELSE LET lo == CHOOSE x \in S : \A y \in S : x <= y
         IN  <<lo>> \o Ascending(S \ {lo})

\* the LU factorisation with row pivoting meets a zero pivot at step i exactly
\* when the first i columns are linearly dependent
ZeroPivot(M, i) ==
    \A S \in {T \in SUBSET (1..Len(M)) : Cardinality(T) = i} :
        LET rs == Ascending(S)
        IN  Det([p \in 1..i |-> [q \in 1..i |-> M[rs[p]][q]]]) = 0

\* the backend's linear solve with one right-hand side: c holds the arguments
\* passed, a and b the buffers behind A and b. An illegal argument gives the
\* negated position of the argument, a zero pivot its index; b is overwritten
\* with the solution only when the status is 0.
backend_gesv(c, a, b) ==
    LET M == [i \in 1..c.n |-> [j \in 1..c.n |-> a[1 + (i - 1) + (j - 1) * c.lda]]]
        den[i \in 0..c.n] == IF i = 0 THEN 1 ELSE den[i - 1] * b[i][2]
        rhs == [i \in 1..c.n |-> b[i][1] * (den[c.n] \div b[i][2])]
        Mj(j) == [i \in 1..c.n |-> [l \in 1..c.n |-> IF l = j THEN rhs[i] ELSE M[i][l]]]
        singular == {i \in 1..c.n : ZeroPivot(M, i)}
    IN  IF c.lda < Max(1, c.n) THEN [info |-> -4, b |-> b]
        ELSE IF c.ldb < Max(1, c.n) THEN [info |-> -7, b |-> b]
        ELSE IF singular # {}
             THEN [info |-> CHOOSE i \in singular : \A l \in singular : i <= l, b |-> b]
        ELSE [info |-> 0, b |-> [j \in 1..c.n |-> Rat(Det(Mj(j)), den[c.n] * Det(M))]]

\* ------------------------------------------------------------------ BLAS calls (void, one backend call)
gemm ==
    /\ pc = "entry"
    /\ kernel = "gemm"
    /\ ~(assertsOn /\ ~entry_asserts)
    /\ calls' = Append(calls, gemm_call)
    /\ pc' = "returned"
    /\ UNCHANGED <<inputs, work, rwork, iwork, n, svd, info, ret, error>>

ger ==
    /\ pc = "entry"
    /\ kernel = "ger"
    /\ ~(assertsOn /\ ~entry_asserts)
    /\ calls' = Append(calls, ger_call)
    /\ pc' = "returned"
    /\ UNCHANGED <<inputs, work, rwork, iwork, n, svd, info, ret, error>>

dot ==
    /\ pc = "entry"
    /\ kernel = "dot"
    /\ ~(assertsOn /\ ~entry_asserts)
    /\ calls' = Append(calls, dot_call)
    /\ pc' = "returned"
    /\ UNCHANGED <<inputs, work, rwork, iwork, n, svd, info, ret, error>>

dotu ==
    /\ pc = "entry"
    /\ kernel = "dotu"
    /\ ~(assertsOn /\ ~entry_asserts)
    /\ calls' = Append(calls, dotu_call)
    /\ pc' = "returned"
    /\ UNCHANGED <<inputs, work, rwork, iwork, n, svd, info, ret, error>>

Next ==
    \/ Reject
    \/ Enter
    \/ Probe
    \/ ProbeFailed
    \/ Resize
    \/ Execute
    \/ CallOnce
    \/ Return
    \/ gemm
    \/ ger
    \/ dot
    \/ dotu

Spec == Init /\ [][Next]_vars

\* ------------------------------------------------------------------ gesv with the contents of A and b
\* entries of the matrices and right-hand sides tried
Entries == {0, 3, 4, 6}
RhsEntries == {0, 1}
GesvOrders == {1, 2}

\* the single backend call of gesv, with the backend's effect on b
CallGesv ==
    /\ pc = "Ready"
    /\ kernel = "gesv"
    /\ LET r == backend_gesv(gesv_call, storage(A, A.data), B.data)
       IN  /\ calls' = Append(calls, [gesv_call EXCEPT !.info = r.info])
           /\ info' = r.info
           /\ B' = [B EXCEPT !.data = r.b]
    /\ pc' = "Executed"
    /\ UNCHANGED <<kernel, assertsOn, oob, A, args, work, rwork, iwork, n, svd, ret, error>>

InitGesv ==
    /\ kernel = "gesv"
    /\ assertsOn \in BOOLEAN
    /\ oob = 0
    /\ \E k \in GesvOrders, la \in Layouts, lb \in Layouts :
          /\ A \in {[dim |-> 2, layout |-> la, shape |-> <<k, k>>, data |-> d] :
                        d \in [1..k -> [1..k -> Entries]]}
          /\ B \in {[dim |-> 1, layout |-> lb, shape |-> <<k>>,
                     data |-> [i \in 1..k |-> Rat(d[i], 1)]] :
                        d \in [1..k -> RhsEntries]}
    /\ args = NoArgs
    /\ pc = "entry"
    /\ work = NoWork
    /\ rwork = NoBuf
    /\ iwork = NoBuf
    /\ n = 0
    /\ svd = NoSvd
    /\ calls = <<>>
    /\ info = 0
    /\ ret = "none"
    /\ error = ""

NextGesv ==
    \/ Reject
    \/ Enter
    \/ CallGesv
    \/ Return

SpecGesv == InitGesv /\ [][NextGesv]_vars

\* ================================================================== claims
LastCall == calls[Len(calls)]

NonEmpty(X) == \A i \in 1..X.dim : X.shape[i] >= 1

\* the operands meet the documented preconditions of the kernel: a 2-D
\* column-major A (and column-major b) for the factorizations, 2-D operands
\* for gemm, 1-D operands for ger
Documented ==
    CASE kernel \in LapackKernels -> assert_matrix(A) /\ B.layout = "column_major"
      [] kernel = "gemm" -> A.dim = 2 /\ B.dim = 2
      [] kernel \in {"ger", "dot", "dotu"} -> A.dim = 1 /\ B.dim = 1

\* the most favourable case for a claim about rejection or normalisation: the
\* assertions are compiled in, no operand is empty and all are as documented
WellFormedInput ==
    /\ assertsOn
    /\ NonEmpty(A)
    /\ B # NoView => NonEmpty(B)
    /\ Documented

\* the extents of A as gesdd reads them
svd_m == shape_at(A, 0)
svd_n == shape_at(A, 1)
svd_mn == IF svd_m <= svd_n THEN svd_m ELSE svd_n
SvdEntered == kernel \in {"gesdd", "gesdd_c"} /\ pc \notin {"entry"} /\ error = ""

\* C1, the calls: in a workspace-using kernel the first backend call is a
\* probe (scratch size -1 on a work buffer of length 1), at most one further
\* call follows, and that call declares as scratch size exactly the value the
\* probe left in work[0], which is then also the length of work.
C1_Calls ==
    kernel \in ScratchKernels =>
        /\ Len(calls) <= 2
        /\ pc \in {"Unqueried", "entry"} => calls = <<>>
        /\ Len(calls) >= 1 => /\ calls[1].lwork = -1
                              /\ calls[1].worklen = 1
        /\ pc = "Allocated" => work.size = work.re
        /\ Len(calls) = 2 => /\ calls[2].lwork = work.re
                             /\ calls[2].worklen = work.re
                             /\ calls[2].lwork # -1
                             /\ (calls[1].info = 0 => work.re \in Sizes)
                             /\ pc \in {"Executed", "returned"}

\* C1, the order: Unqueried, SizeProbed, Allocated, Executed are entered only
\* in that order, each from its predecessor.
C1_Step ==
    /\ pc' = "SizeProbed" => pc \in {"Unqueried", "SizeProbed"}
    /\ pc' = "Allocated" => pc \in {"SizeProbed", "Allocated"}
    /\ (pc' = "Executed" /\ kernel \in ScratchKernels) => pc \in {"Allocated", "Executed"}
    /\ pc' = "Unqueried" => pc \in {"entry", "Unqueried"}

\* C1: every workspace-using kernel probes first (lwork = -1, work of length
\* 1), resizes work to the probed size and only then executes with exactly
\* that size, passing through Unqueried, SizeProbed, Allocated, Executed in
\* this order.
C1_WorkspaceProtocol == [](C1_Calls) /\ [][C1_Step]_vars

C1_Witness ==
    /\ kernel = "heevd"
    /\ pc = "Executed"
    /\ Len(calls) = 2
    /\ calls[1].lwork = -1
    /\ calls[2].lwork = MaxWork
    /\ work.size = MaxWork

\* C2: in every workspace-using kernel (getri included) a non-zero status of
\* the probe, of either sign, aborts the call: no second backend call is made
\* and no status is returned.
\* (Stated for builds with the assertions compiled in and operands that meet
\* the documented preconditions, so that a violation owes nothing to a
\* malformed operand.)
C2_ProbeFailureAborts ==
    (kernel \in ScratchKernels /\ WellFormedInput /\ Len(calls) >= 1 /\ calls[1].info # 0) =>
        /\ Len(calls) = 1
        /\ ret = "none"

\* C3: the status of the execute call (of the single call for gesv, getrf,
\* potr) is returned unchanged, whatever its sign, and never raises an error.
C3_ExecuteStatusReturned ==
    (kernel \in LapackKernels /\ pc \in {"Executed", "returned"}) =>
        /\ calls # <<>>
        /\ error = ""
        /\ info = LastCall.info
        /\ pc = "returned" => ret = LastCall.info

C3_Witness ==
    /\ kernel = "gesdd"
    /\ pc = "returned"
    /\ Len(calls) = 2
    /\ calls[1].info = 0
    /\ calls[2].info = -1
    /\ ret = -1

\* the leading-dimension arguments of a backend call
LeadingDims(c) ==
    CASE c.fn \in {"gesv", "gelsd", "gelsd_c"} -> {c.lda, c.ldb}
      [] c.fn \in {"gesdd", "gesdd_c"} -> {c.lda, c.ldu, c.ldvt}
      [] c.fn \in {"geev", "geev_c"} -> {c.lda, c.ldvl, c.ldvr}
      [] c.fn = "gemm" -> {c.lda, c.ldb, c.ldc}
      [] OTHER -> {c.lda}

\* C4: every leading-dimension argument handed to the backend is at least 1,
\* in gesv, getrf, orgqr, ungqr, geqrf, gesdd, potr, getri, geev, syevd,
\* heevd, gelsd and ger alike.
\* (Stated for builds with the assertions compiled in and non-empty operands
\* that meet the documented preconditions.)
C4_LeadingDimsAtLeastOne ==
    (kernel \in LapackKernels \cup {"ger"} /\ WellFormedInput) =>
        \A i \in 1..Len(calls) : \A d \in LeadingDims(calls[i]) : d >= 1

\* C5: every factorization entry point rejects an A that is not 2-D or not
\* column-major before any backend call.
\* (Stated for builds with the assertions compiled in and a non-empty A.)
C5_RejectsMalformedA ==
    (kernel \in LapackKernels /\ assertsOn /\ NonEmpty(A) /\ ~assert_matrix(A)) =>
        calls = <<>>

\* C6: gesdd with jobz = 'N': u and vt are not resized and stay empty, and the
\* leading strides passed for u and vt are 1 in the probe and in the execute
\* call, for every m and n.
C6_JobN ==
    (SvdEntered /\ args.jobz = "N") =>
        /\ ~svd.u_resized /\ svd.u.shape = <<0, 0>>
        /\ ~svd.vt_resized /\ svd.vt.shape = <<0, 0>>
        /\ \A i \in 1..Len(calls) : calls[i].ldu = 1 /\ calls[i].ldvt = 1

C6_Witness ==
    /\ kernel = "gesdd_c"
    /\ args.jobz = "N"
    /\ A = Matrix(MaxExtent, 1)
    /\ Len(calls) = 2
    /\ calls[2].ldu = 1
    /\ calls[2].ldvt = 1

\* C7: gesdd with jobz = 'O': exactly one of u, vt is allocated, u as m-by-m
\* when m < n and vt as n-by-n when m >= n; the other stays empty and its
\* leading stride is 1.
C7_JobO ==
    (SvdEntered /\ args.jobz = "O") =>
        /\ svd.u_resized # svd.vt_resized
        /\ svd_m < svd_n => /\ svd.u_resized /\ svd.u.shape = <<svd_m, svd_m>>
                            /\ svd.vt.shape = <<0, 0>>
                            /\ svd.vt_stride = 1
                            /\ \A i \in 1..Len(calls) : calls[i].ldvt = 1
        /\ svd_m >= svd_n => /\ svd.vt_resized /\ svd.vt.shape = <<svd_n, svd_n>>
                             /\ svd.u.shape = <<0, 0>>
                             /\ svd.u_stride = 1
                             /\ \A i \in 1..Len(calls) : calls[i].ldu = 1

C7_Witness ==
    /\ kernel = "gesdd"
    /\ args.jobz = "O"
    /\ A = Matrix(1, MaxExtent)
    /\ svd.u_resized
    /\ ~svd.vt_resized
    /\ Len(calls) = 2

\* C8: gesdd with jobz = 'A': u is m-by-m, vt is n-by-n and s has length
\* max(1, min(m, n)).
C8_JobA ==
    (SvdEntered /\ args.jobz = "A") =>
        /\ svd.u.shape = <<svd_m, svd_m>>
        /\ svd.vt.shape = <<svd_n, svd_n>>
        /\ svd.s = IF svd_mn >= 1 THEN svd_mn ELSE 1

C8_Witness ==
    /\ kernel = "gesdd"
    /\ args.jobz = "A"
    /\ A = Matrix(0, MaxExtent)
    /\ svd.s = 1
    /\ svd.vt.shape = <<MaxExtent, MaxExtent>>
    /\ pc = "returned"

\* C9: gesdd with jobz = 'S': u is m-by-min(m,n) and vt is min(m,n)-by-n, in
\* the real and in the complex specialization alike.
C9_JobS ==
    (SvdEntered /\ args.jobz = "S") =>
        /\ svd.u.shape = <<svd_m, svd_mn>>
        /\ svd.vt.shape = <<svd_mn, svd_n>>

C9_Witness ==
    /\ kernel = "gesdd_c"
    /\ args.jobz = "S"
    /\ A = Matrix(MaxExtent, 1)
    /\ svd.u.shape = <<MaxExtent, 1>>
    /\ svd.vt.shape = <<1, 1>>
    /\ pc = "returned"

\* C10: gemm makes no backend call when the column count of op(A) differs
\* from the row count of op(B).
\* (Stated for builds with the assertions compiled in and non-empty 2-D A.)
C10_GemmRejectsMismatch ==
    (/\ kernel = "gemm"
     /\ WellFormedInput
     /\ OpCols(A, args.transpose_A) # OpRows(B, args.transpose_B)) => calls = <<>>

\* C11: for every combination of the transpose flags gemm passes M = rows of
\* op(A), N = columns of op(B), K = rows of op(B); with transpose_A set and
\* transpose_B clear, A m-by-n and B m-by-k give M = n, N = k, K = m.
C11_GemmDims ==
    (kernel = "gemm" /\ A.dim = 2 /\ B.dim = 2 /\ calls # <<>>) =>
        LET c == calls[1]
            rowsA == IF args.transpose_A THEN A.shape[2] ELSE A.shape[1]
            rowsB == IF args.transpose_B THEN B.shape[2] ELSE B.shape[1]
            colsB == IF args.transpose_B THEN B.shape[1] ELSE B.shape[2]
        IN  /\ Len(calls) = 1
            /\ c.transA = args.transpose_A /\ c.transB = args.transpose_B
            /\ c.m = rowsA /\ c.n = colsB /\ c.k = rowsB
            /\ (args.transpose_A /\ ~args.transpose_B) =>
                    c.m = A.shape[2] /\ c.n = B.shape[2] /\ c.k = B.shape[1]

C11_Witness ==
    /\ kernel = "gemm"
    /\ args.transpose_A /\ ~args.transpose_B
    /\ A.dim = 2 /\ A.shape = <<MaxExtent, 1>>
    /\ B.dim = 2 /\ B.shape = <<MaxExtent, MaxExtent>>
    /\ Len(calls) = 1
    /\ calls[1].m = 1 /\ calls[1].n = MaxExtent /\ calls[1].k = MaxExtent

\* C12: gesv, getrf and potr call the backend exactly once per invocation,
\* never with a workspace probe (lwork = -1) and never passing through the
\* probe/resize states, and return the status of that single call.
C12_SingleCall ==
    kernel \in NoScratchKernels =>
        /\ pc \in {"entry", "aborted", "Ready", "Executed", "returned"}
        /\ work = NoWork
        /\ pc \in {"entry", "aborted", "Ready"} => calls = <<>>
        /\ pc \in {"Executed", "returned"} =>
              /\ Len(calls) = 1
              /\ calls[1].fn = (IF kernel = "potr" THEN "potrf" ELSE kernel)
              /\ calls[1].lwork # -1
              /\ info = calls[1].info
        /\ pc = "returned" => ret = calls[1].info

C12_Witness ==
    /\ kernel = "getrf"
    /\ pc = "returned"
    /\ Len(calls) = 1
    /\ calls[1].info = MaxInfo
    /\ ret = MaxInfo

\* the matrix with rows (4, 3) and (6, 3), stored column-major
ScenarioA ==
    /\ kernel = "gesv"
    /\ A.dim = 2 /\ A.layout = "column_major" /\ A.shape = <<2, 2>>
    /\ A.data = <<<<4, 3>>, <<6, 3>>>>

ScenarioCall ==
    /\ ScenarioA
    /\ B.dim = 1 /\ B.layout = "column_major"
    /\ B.data = <<Rat(1, 1), Rat(1, 1)>>
    /\ pc = "Ready" /\ pc' = "Executed"

\* C13 as stated: gesv on A = [[4,3],[6,3]] (column-major) with b = [1,1]
\* returns status 0 and leaves b = [-1/2, 1].
C13_AsStated ==
    [][/\ ScenarioCall => (info' = 0 /\ B'.data = <<Rat(-1, 2), Rat(1, 1)>>)
       /\ (ScenarioA /\ pc = "Executed" /\ pc' = "returned") => ret' = info]_vars

\* C13 amended: gesv on A = [[4,3],[6,3]] (column-major) with b = [1,1]
\* returns status 0 and leaves b overwritten with the solution [0, 1/3] of
\* A x = b.
C13_GesvScenario ==
    [][/\ ScenarioCall => (info' = 0 /\ B'.data = <<Rat(0, 1), Rat(1, 3)>>)
       /\ (ScenarioA /\ pc = "Executed" /\ pc' = "returned") => ret' = info]_vars

C13_Witness ==
    /\ ScenarioA
    /\ pc = "returned"
    /\ Len(calls) = 1
    /\ ret = 0
    /\ B.data = <<<<0, 1>>, <<1, 3>>>>

\* where the backend of ger looks for element (i, j) of the result, given the
\* storage order and leading dimension passed, and where the result holds it
ger_backend_offset(c, i, j) ==
    IF c.order = "ColMajor" THEN i + j * c.lda ELSE i * c.lda + j
ger_result_offset(i, j) == i * strides_at(args.R, 0) + j * strides_at(args.R, 1)

\* C14: the leading dimension ger passes for its result is the distance
\* between adjacent columns of a column-major result and between adjacent
\* rows of a row-major one, so that the update addresses element (i, j) of
\* every n-by-m result in either storage order (here: n, m >= 2).
C14_GerLeadingDim ==
    (kernel = "ger" /\ WellFormedInput /\ calls # <<>>
        /\ shape_front(A) >= 2 /\ shape_front(B) >= 2) =>
        LET c == calls[1]
        IN  /\ c.lda = (IF args.R.layout = "column_major"
                        THEN strides_at(args.R, 1) ELSE strides_at(args.R, 0))
            /\ \A i \in 0..(c.m - 1), j \in 0..(c.n - 1) :
                  ger_backend_offset(c, i, j) = ger_result_offset(i, j)

\* the arguments of a backend call other than the scratch buffers, their
\* declared sizes and the status
NonScratchFields == {"fn", "jobz", "jobvl", "jobvr", "uplo", "order", "transA", "transB",
                     "m", "n", "k", "nrhs", "lda", "ldb", "ldc", "ldu", "ldvt", "ldvl",
                     "ldvr", "incx", "incy"}

\* C15: in every workspace-using kernel the probe and the execute call get the
\* same job flags, dimensions and leading strides; and in orgqr/ungqr every
\* call gets n resolved from the -1 default to A's column count.
C15_SameArguments ==
    kernel \in ScratchKernels =>
        /\ Len(calls) = 2 => \A f \in NonScratchFields : calls[1][f] = calls[2][f]
        /\ kernel \in {"orgqr", "ungqr"} =>
              \A i \in 1..Len(calls) :
                  calls[i].n = (IF args.n = -1 THEN shape_at(A, 1) ELSE args.n)

C15_Witness ==
    /\ kernel = "orgqr"
    /\ args.n = -1
    /\ A.dim = 2 /\ A.shape[2] = MaxExtent
    /\ Len(calls) = 2
    /\ calls[1].lwork = -1 /\ calls[1].n = MaxExtent
    /\ calls[2].lwork # -1 /\ calls[2].n = MaxExtent

\* the number of elements a view holds
ElementCount(X) == IF X.dim = 1 THEN X.shape[1] ELSE X.shape[1] * X.shape[2]

\* C16: dot and dotu never ask the backend to read more elements of b than b
\* holds, and a b that is not 1-dimensional or is shorter than a is rejected
\* before the backend call.
\* (Stated for builds with the assertions compiled in and non-empty 1-D
\* operands, where only the length of b can be at fault.)
C16_DotWithinB ==
    (kernel \in {"dot", "dotu"} /\ WellFormedInput /\ NonEmpty(B)) =>
        /\ \A i \in 1..Len(calls) : calls[i].n <= ElementCount(B)
        /\ shape_front(B) < shape_front(A) => calls = <<>>

\* C17: in the complex gesdd rwork has length 5*mn for job 'N' and exactly
\* 5*mn*mn + 5*mn for every other job and every m and n (m = n included); in
\* both gesdd variants iwork has length 8*mn; and the probe and the execute
\* call are both given buffers of these lengths.
C17_SvdScratchSizes ==
    SvdEntered =>
        LET rlen == IF args.jobz = "N" THEN 5 * svd_mn ELSE 5 * svd_mn * svd_mn + 5 * svd_mn
        IN  /\ iwork.size = 8 * svd_mn
            /\ \A i \in 1..Len(calls) : calls[i].iworklen = 8 * svd_mn
            /\ kernel = "gesdd_c" =>
                  /\ rwork.size = rlen
                  /\ \A i \in 1..Len(calls) : calls[i].rworklen = rlen

C17_Witness ==
    /\ kernel = "gesdd_c"
    /\ args.jobz = "S"
    /\ A.dim = 2 /\ A.shape = <<MaxExtent, MaxExtent>>
    /\ Len(calls) = 2
    /\ calls[1].lwork = -1
    /\ calls[2].rworklen = 5 * MaxExtent * MaxExtent + 5 * MaxExtent
    /\ calls[2].iworklen = 8 * MaxExtent

====
